---- MODULE Spec2Model ----
(***************************************************************************)
(* Model of the C-Poker-AI decision engine (pokerai.c, action.c) and of    *)
(* the client loop that drives it (pokerclient.c).                         *)
(*                                                                         *)
(*   Spec      the client loop, GetBestAction, the Monte Carlo worker      *)
(*             threads, the AI mutex and the global totals                 *)
(*   SpecDecide  the tail of GetBestAction (winprob, the if-chain) applied *)
(*             to a range of totals and stacks                             *)
(*   SpecDraw  the pool SimulateSingleGame builds, and draw() applied to   *)
(*             it until it is empty                                        *)
(*   SpecGame  the end of SimulateSingleGame: the hands are scored,        *)
(*             BestOpponentHand, the comparison                            *)
(*   SpecUpdate  UpdateGameState applied once and again to any action      *)
(*   SpecLive  one call of GetBestAction under fair scheduling             *)
(*   SpecWorker  one worker of SimulateGames, playout by playout           *)
(*   SpecPlay  the dealing of SimulateSingleGame in one thread, from a     *)
(*             52-card deck, against up to MAX_OPPONENTS opponents         *)
(*   SpecRand  the dealing of SimulateSingleGame in two threads that       *)
(*             share rand()                                                *)
(***************************************************************************)
EXTENDS Integers, Sequences, FiniteSets

(* ---------------------------------------------------------------------- *)
(* Bounds of the model                                                     *)
(* ---------------------------------------------------------------------- *)
MaxThreads == 2      \* num_threads ranges over 0..MaxThreads
MaxTimeout == 0      \* timeout (ms) ranges over 0..MaxTimeout
MaxBatches == 1      \* batches of BATCH playouts one worker may complete
MaxDecideBatches == 2 \* SpecDecide: games_simulated is up to this many batches
MaxDeck    == 4      \* SpecDraw: most cards left unused in game->deck
MaxCard    == 5      \* SpecDraw: the cards are 1..MaxCard
MaxRand    == 5      \* rand() ranges over 0..MaxRand; its state too
MaxOpp     == 2      \* SpecGame, SpecRand: num_opponents is in 0..MaxOpp
MaxScore   == 4      \* SpecGame: GetHandValue ranges over 0..MaxScore

(* ---------------------------------------------------------------------- *)
(* Program constants                                                       *)
(* ---------------------------------------------------------------------- *)
BATCH     == 1000    \* simulated % 1000 == 0
MAX_TRIES == 5
AI_WIN    == 1
AI_LOSE   == 0
MANT      == 53      \* significand bits of an IEEE-754 double

ACTION_UNSET == "UNSET"
FOLD == "FOLD"
CALL == "CALL"
BET  == "BET"

Threads  == 1..MaxThreads
Timeouts == 0..MaxTimeout
Stacks   == {0, 1}
\* wins one worker may score in one batch of BATCH playouts: none or all
BatchWins == {0, BATCH}
\* SpecDecide: the stacks, and the totals in steps of one percent of a batch
DecideStacks == {0, 1, 50, 100}
DecideSimulated == {BATCH * n : n \in 1..MaxDecideBatches}
DecideWon(sim) == {(BATCH \div 100) * k : k \in 0..(sim \div (BATCH \div 100))}

FREE == 0            \* the mutex is not held

\* a response that httpGetJSON parsed but SetGameState cannot decode
MALFORMED == [malformed |-> TRUE]

(* ---------------------------------------------------------------------- *)
(* IEEE-754 double arithmetic, as far as GetBestAction uses it.            *)
(* A finite positive double is [nan |-> FALSE, m, e]: m is the significand *)
(* as a sequence of MANT bits, most significant first, m[1] = 1, and the   *)
(* value is m * 2^e.  Zero has m = <<>>.  DNaN is the NaN that 0.0 / 0     *)
(* produces, DInf the infinity that x / 0 produces for x > 0.  Rounding is *)
(* to nearest, ties to even.                                               *)
(* ---------------------------------------------------------------------- *)
NIBBLES == 13        \* (MANT - 1) / 4 hexadecimal digits after the leading 1

RECURSIVE Pow2(_)
Pow2(n) == IF n = 0 THEN 1 ELSE 2 * Pow2(n - 1)

\* number of bits of n > 0
RECURSIVE BitLen(_)
BitLen(n) == IF n = 0 THEN 0 ELSE 1 + BitLen(n \div 2)

\* bit i (1 = most significant) of the len-bit integer n
BitOf(n, len, i) == (n \div Pow2(len - i)) % 2

\* the integer written by the first n bits of b
RECURSIVE BitsToInt(_, _)
BitsToInt(b, n) == IF n = 0 THEN 0 ELSE 2 * BitsToInt(b, n - 1) + b[n]

\* b + 1 on a bit sequence that holds a 0: the last 0 becomes 1, the 1s
\* after it become 0
IncBits(b) ==
  LET j == CHOOSE i \in 1..Len(b) :
             b[i] = 0 /\ \A k \in (i + 1)..Len(b) : b[k] = 1
  IN  [i \in 1..Len(b) |-> IF i < j THEN b[i] ELSE IF i = j THEN 1 ELSE 0]

\* round the MANT kept bits m (weight 2^e) to nearest, ties to even; cmp is
\* -1, 0 or 1 as the discarded part is below, at or above half a unit of
\* the last kept place
RoundNearestEven(m, e, cmp) ==
  LET up == cmp > 0 \/ (cmp = 0 /\ m[MANT] = 1)
  IN  IF ~up THEN [nan |-> FALSE, inf |-> FALSE, m |-> m, e |-> e]
      ELSE IF \A i \in 1..MANT : m[i] = 1
      THEN [nan |-> FALSE, inf |-> FALSE,
            m |-> [i \in 1..MANT |-> IF i = 1 THEN 1 ELSE 0], e |-> e + 1]
      ELSE [nan |-> FALSE, inf |-> FALSE, m |-> IncBits(m), e |-> e]

DZero == [nan |-> FALSE, inf |-> FALSE, m |-> <<>>, e |-> 0]
DNaN  == [nan |-> TRUE,  inf |-> FALSE, m |-> <<>>, e |-> 0]
DInf  == [nan |-> FALSE, inf |-> TRUE,  m |-> <<>>, e |-> 0]
INT_MIN == -2147483647 - 1

\* the least j >= 0 with a * 2^j >= d   (a > 0, d > 0)
RECURSIVE ShiftUp(_, _)
ShiftUp(a, d) == IF a >= d THEN 0 ELSE 1 + ShiftUp(2 * a, d)

\* the greatest j >= 0 with d * 2^j <= a   (a >= d > 0)
RECURSIVE ShiftDown(_, _)
ShiftDown(a, d) == IF a < 2 * d THEN 0 ELSE 1 + ShiftDown(a, 2 * d)

\* n hexadecimal quotient digits of r / d by long division, 0 <= r < d
RECURSIVE LongDiv(_, _, _)
LongDiv(r, d, n) ==
  IF n = 0 THEN [q |-> <<>>, r |-> r]
  ELSE LET rest == LongDiv((16 * r) % d, d, n - 1)
       IN  [q |-> <<(16 * r) \div d>> \o rest.q, r |-> rest.r]

\* ((double) a) / d for ints a >= 0, d >= 0: the correctly rounded quotient;
\* 0.0 / 0 is NaN and a / 0 is +infinity for a > 0
DoubleDiv(a, d) ==
  IF d = 0 THEN (IF a = 0 THEN DNaN ELSE DInf)
  ELSE IF a = 0 THEN DZero
  ELSE LET up == ShiftUp(a, d)
           dn == IF a >= d THEN ShiftDown(a, d) ELSE 0
           a1 == a * Pow2(up)
           d1 == d * Pow2(dn)
           \* 1 <= a1 / d1 < 2
           ld == LongDiv(a1 - d1, d1, NIBBLES)
           m  == [i \in 1..MANT |->
                    IF i = 1 THEN 1
                    ELSE BitOf(ld.q[((i - 2) \div 4) + 1], 4, ((i - 2) % 4) + 1)]
           cmp == IF 2 * ld.r > d1 THEN 1 ELSE IF 2 * ld.r = d1 THEN 0 ELSE -1
       IN  RoundNearestEven(m, dn - up - (MANT - 1), cmp)

\* the MANT - 1 bits after the leading 1, as NIBBLES hexadecimal digits
Nibbles(m) ==
  [j \in 1..NIBBLES |->
     8 * m[4 * j - 2] + 4 * m[4 * j - 1] + 2 * m[4 * j] + m[4 * j + 1]]

\* the first n digits of h times s plus the carry c, as
\* [top: what is carried out to the left, q: the n digits]
RECURSIVE MulDigits(_, _, _, _)
MulDigits(h, n, s, c) ==
  IF n = 0 THEN [top |-> c, q |-> <<>>]
  ELSE LET t    == h[n] * s + c
           rest == MulDigits(h, n - 1, s, t \div 16)
       IN  [top |-> rest.top, q |-> rest.q \o <<t % 16>>]

\* s * x for an int s >= 0 (exactly representable) and a double x
DoubleMulInt(s, x) ==
  IF x.nan \/ (x.inf /\ s = 0) THEN DNaN
  ELSE IF x.inf THEN DInf
  ELSE IF s = 0 \/ x.m = <<>> THEN DZero
  ELSE LET md  == MulDigits(Nibbles(x.m), NIBBLES, s, 0)
           top == s + md.top           \* the leading 1 times s, plus carry
           tl  == BitLen(top)
           L   == tl + (MANT - 1)      \* bits of the exact product
           p   == [i \in 1..L |->
                     IF i <= tl THEN BitOf(top, tl, i)
                     ELSE BitOf(md.q[((i - tl - 1) \div 4) + 1], 4,
                                ((i - tl - 1) % 4) + 1)]
           kept == [i \in 1..MANT |-> p[i]]
           cmp  == IF L = MANT \/ p[MANT + 1] = 0 THEN -1
                   ELSE IF \E i \in (MANT + 2)..L : p[i] = 1 THEN 1 ELSE 0
       IN  RoundNearestEven(kept, x.e + (L - MANT), cmp)

\* (int) x : truncation toward zero of a finite non-negative double; a NaN
\* or an infinity converts to INT_MIN, the x86-64 "integer indefinite"
DoubleToInt(x) ==
  IF x.nan \/ x.inf THEN INT_MIN
  ELSE IF x.m = <<>> THEN 0
  ELSE IF x.e >= 0 THEN BitsToInt(x.m, MANT) * Pow2(x.e)
  ELSE IF -x.e >= MANT THEN 0
  ELSE BitsToInt(x.m, MANT + x.e)

\* x > 2^n as C evaluates it; every comparison with a NaN is false
DoubleGtPow2(x, n) ==
  /\ ~x.nan
  /\ \/ x.inf
     \/ /\ x.m # <<>>
        /\ LET top == MANT - 1 + x.e    \* 2^top <= x < 2^(top+1)
           IN  \/ top > n
               \/ top = n /\ \E i \in 2..MANT : x.m[i] = 1

\* x == 0.0
DoubleIsZero(x) == ~x.nan /\ ~x.inf /\ x.m = <<>>

(* ---------------------------------------------------------------------- *)
(* State                                                                   *)
(* ---------------------------------------------------------------------- *)
VARIABLES
  num_threads,      \* ai->num_threads, fixed by CreatePokerAI
  timeout,          \* ai->timeout (ms), fixed by CreatePokerAI
  cpc,              \* position of the client's main thread
  response,         \* main(): the cJSON pointer "null", "live" or "freed"
  json,             \* the game state the fetched response holds
  attempts,         \* main(): POST attempts of this decision
  calls,            \* UpdateGameState calls made with the fetched response
  game,             \* ai->game
  action,           \* ai->action: [type, amount]
  games_won,        \* ai->games_won
  games_simulated,  \* ai->games_simulated
  winprob,          \* GetBestAction: double winprob
  ci,               \* SpawnMonteCarloThreads: the loop index i
  mutex,            \* ai->mutex: FREE or the thread that holds it
  wpc,              \* position of each worker thread
  simulated,        \* SimulateGames: int simulated, per thread
  won,              \* SimulateGames: int won, per thread
  timer,            \* SimulateGames: Timer timer, per thread: the ms it has
                    \* counted since the thread's StartTimer
  tmp,              \* the value a thread loaded for its pending +=
  deck,             \* SpecDraw: int deck[], the randomized queue
  decksize,         \* SpecDraw: int decksize
  pool,             \* SpecDraw: the cards the pool was built with
  drawn,            \* SpecDraw: the values draw() returned, in order
  num_opponents,    \* SpecGame: game->num_opponents
  myscore,          \* SpecGame: SimulateSingleGame: int myscore
  oppscore,         \* SpecGame: GetHandValue(opponents[i], numcards)
  bestopponent,     \* SpecGame: SimulateSingleGame: int bestopponent
  result,           \* SpecGame: what SimulateSingleGame returned
  gpc,              \* SpecGame: position in SimulateSingleGame
  late,             \* SpecWorker: playouts a thread completed after its
                    \* elapsed time first exceeded the timeout
  seed,             \* the state of rand(), one for the whole process
  seed0,            \* the state rand() had when the playouts began
  cards,            \* ai->game: hand, community (communitysize long), deck
                    \* (the cards i + 1 with game->deck[i] set)
  ppc,              \* position of each thread in SimulateSingleGame
  qdeck,            \* SimulateSingleGame: int deck[52], per thread
  qsize,            \* SimulateSingleGame: int decksize, per thread
  comm,             \* SimulateSingleGame: int community[], filled so far
  ohand,            \* SimulateSingleGame: opponents[opp][i], i < NUM_HAND,
                    \* in the order they are dealt
  rands             \* the values rand() returned to each thread

config    == <<num_threads, timeout>>
client    == <<response, json, attempts, calls>>
totals    == <<games_won, games_simulated>>
locals    == <<simulated, won, timer, tmp>>
drawvars  == <<deck, decksize, pool, drawn>>
gamevars  == <<num_opponents, myscore, oppscore, bestopponent, result, gpc>>
playvars  == <<seed, seed0, cards, ppc, qdeck, qsize, comm, ohand, rands>>
extvars   == <<late, playvars>>
mainvars  == <<config, cpc, client, game, action, totals, winprob, ci, mutex,
               wpc, locals>>
vars      == <<mainvars, drawvars, gamevars, extvars>>

GameStates == [stack : Stacks, your_turn : BOOLEAN]

\* what a response that httpGetJSON returned non-NULL may hold
Responses == GameStates \cup {MALFORMED}

(* ---------------------------------------------------------------------- *)
(* The client loop, pokerclient.c main()                                   *)
(* ---------------------------------------------------------------------- *)
\* response = httpGetJSON(GET_URL) fails: sleep(1); continue
HttpGetFail ==
  /\ cpc = "get"
  /\ response' = "null"
  /\ UNCHANGED <<config, cpc, json, attempts, calls, game, action, totals,
                 winprob, ci, mutex, wpc, locals,  drawvars, gamevars, extvars>>

\* response = httpGetJSON(GET_URL) succeeds with some game state
HttpGetOk ==
  /\ cpc = "get"
  /\ \E s \in Responses : json' = s
  /\ response' = "live"
  /\ calls' = 0
  /\ cpc' = "update"
  /\ UNCHANGED <<config, attempts, game, action, totals, winprob, ci, mutex,
                 wpc, locals,  drawvars, gamevars, extvars>>

\* SetGameState(&ai->game, new_state): the decoded state replaces the old
\* one; a state that cannot be decoded leaves the old one as it is
SetGameState(old, new_state) ==
  IF new_state = MALFORMED THEN old ELSE new_state

\* mutant: the update forgets to reset the action
UpdateGameStateNoReset ==
  /\ cpc = "update"
  /\ game' = SetGameState(game, json)
  /\ calls' = calls + 1
  /\ cpc' = "delete"
  /\ UNCHANGED <<config, response, json, attempts, action, totals, winprob,
                 ci, mutex, wpc, locals,  drawvars, gamevars, extvars>>

\* UpdateGameState(AI, response)
UpdateGameState ==
  /\ cpc = "update"
  /\ action' = [action EXCEPT !.type = ACTION_UNSET]
  /\ game' = SetGameState(game, json)
  /\ calls' = calls + 1
  /\ cpc' = "delete"
  /\ UNCHANGED <<config, response, json, attempts, totals, winprob, ci,
                 mutex, wpc, locals,  drawvars, gamevars, extvars>>

\* cJSON_Delete(response): the pointer keeps its (non-null) value
DeleteResponse ==
  /\ cpc = "delete"
  /\ response' = "freed"
  /\ cpc' = "turn"
  /\ UNCHANGED <<config, json, attempts, calls, game, action, totals,
                 winprob, ci, mutex, wpc, locals,  drawvars, gamevars, extvars>>

\* mutant: the engine always claims the turn
MyTurnAlways == TRUE

\* bool MyTurn(ai)
MyTurn == game.your_turn

\* if (MyTurn(AI)) { int attempts = 0; action = GetBestAction(AI) ...
EnterTurn ==
  /\ cpc = "turn"
  /\ MyTurn
  /\ attempts' = 0
  /\ cpc' = "reset"
  /\ UNCHANGED <<config, response, json, calls, game, action, totals,
                 winprob, ci, mutex, wpc, locals,  drawvars, gamevars, extvars>>

\* not the AI's turn: sleep(1) and poll again
SkipTurn ==
  /\ cpc = "turn"
  /\ ~MyTurn
  /\ cpc' = "get"
  /\ UNCHANGED <<config, client, game, action, totals, winprob, ci, mutex,
                 wpc, locals,  drawvars, gamevars, extvars>>

\* one pass of  while (attempts < MAX_TRIES && !response) { httpPostJSON ...;
\* attempts++; cJSON_Delete(response); }  followed, when the condition is
\* false, by sleep(1) and the next iteration of the main loop
PostAction ==
  /\ cpc = "post"
  /\ IF attempts < MAX_TRIES /\ response = "null"
     THEN /\ \E r \in {"null", "freed"} : response' = r
          /\ attempts' = attempts + 1
          /\ cpc' = "post"
     ELSE /\ cpc' = "get"
          /\ UNCHANGED <<response, attempts>>
  /\ UNCHANGED <<config, json, calls, game, action, totals, winprob, ci,
                 mutex, wpc, locals,  drawvars, gamevars, extvars>>

(* ---------------------------------------------------------------------- *)
(* GetBestAction and SpawnMonteCarloThreads, pokerai.c                     *)
(* ---------------------------------------------------------------------- *)
\* GetBestAction's if-chain on winprob: the type it assigns
DecideType(p) ==
  IF DoubleGtPow2(p, -1) THEN BET          \* winprob > 0.5
  ELSE IF DoubleGtPow2(p, -2) THEN CALL    \* winprob > 0.25
  ELSE FOLD

\* mutant: the bet is rounded up instead of truncated
BetAmountRoundedUp(stack, p) == DoubleToInt(DoubleMulInt(stack, p)) + 1

\* ai->action.amount = ai->game.stack * winprob  (double product, then int)
BetAmount(stack, p) == DoubleToInt(DoubleMulInt(stack, p))

\* double winprob = 0; ai->games_won = 0; ai->games_simulated = 0;
ResetTotals ==
  /\ cpc = "reset"
  /\ winprob' = DZero
  /\ games_won' = 0
  /\ games_simulated' = 0
  /\ ci' = 0
  /\ cpc' = "spawn"
  /\ UNCHANGED <<config, client, game, action, mutex, wpc, locals, drawvars,
                 gamevars, extvars>>

\* pthread_create(&ai->threads[i], NULL, SimulateGames, ai); i++
Spawn ==
  /\ cpc = "spawn"
  /\ ci < num_threads
  /\ wpc' = [wpc EXCEPT ![ci + 1] = "start"]
  /\ ci' = ci + 1
  /\ UNCHANGED <<config, cpc, client, game, action, totals, winprob, mutex,
                 locals,  drawvars, gamevars, extvars>>

\* the first for loop ends; the second starts with i = 0
SpawnDone ==
  /\ cpc = "spawn"
  /\ ci >= num_threads
  /\ ci' = 0
  /\ cpc' = "join"
  /\ UNCHANGED <<config, client, game, action, totals, winprob, mutex, wpc,
                 locals,  drawvars, gamevars, extvars>>

\* mutant: the join does not wait for the thread
ThreadFinishedNoWait(w) == TRUE

\* pthread_join returns once the thread has terminated
ThreadFinished(w) == wpc[w] = "done"

\* pthread_join(ai->threads[i], NULL); i++
Join ==
  /\ cpc = "join"
  /\ ci < num_threads
  /\ ThreadFinished(ci + 1)
  /\ ci' = ci + 1
  /\ UNCHANGED <<config, cpc, client, game, action, totals, winprob, mutex,
                 wpc, locals,  drawvars, gamevars, extvars>>

\* the second for loop ends; SpawnMonteCarloThreads returns
JoinDone ==
  /\ cpc = "join"
  /\ ci >= num_threads
  /\ cpc' = "compute"
  /\ UNCHANGED <<config, client, game, action, totals, winprob, ci, mutex,
                 wpc, locals,  drawvars, gamevars, extvars>>

\* winprob = ((double) ai->games_won) / ai->games_simulated
ComputeWinprob ==
  /\ cpc = "compute"
  /\ winprob' = DoubleDiv(games_won, games_simulated)
  /\ cpc' = "decide"
  /\ UNCHANGED <<config, client, game, action, totals, ci, mutex, wpc, locals,
                  drawvars, gamevars, extvars>>

\* the if-chain that sets ai->action, then return ActionGetString(...).
\* The threads of the cycle are gone: their slots and locals go back to
\* the values they have when no thread exists.
Decide ==
  /\ cpc = "decide"
  /\ action' = IF DecideType(winprob) = BET
               THEN [type |-> BET, amount |-> BetAmount(game.stack, winprob)]
               ELSE [action EXCEPT !.type = DecideType(winprob)]
  /\ wpc' = [w \in Threads |-> IF wpc[w] = "done" THEN "idle" ELSE wpc[w]]
  /\ simulated' = [w \in Threads |-> IF wpc[w] = "done" THEN 0 ELSE simulated[w]]
  /\ won' = [w \in Threads |-> IF wpc[w] = "done" THEN 0 ELSE won[w]]
  /\ timer' = [w \in Threads |-> IF wpc[w] = "done" THEN 0 ELSE timer[w]]
  /\ tmp' = [w \in Threads |-> IF wpc[w] = "done" THEN 0 ELSE tmp[w]]
  /\ cpc' = "post"
  /\ UNCHANGED <<config, client, game, totals, winprob, ci, mutex, 
                 drawvars, gamevars, extvars>>

(* ---------------------------------------------------------------------- *)
(* The worker thread, SimulateGames                                        *)
(* ---------------------------------------------------------------------- *)
\* GetElapsedTime(&timer): ms since StartTimer(&timer) of this thread
Elapsed(w) == timer[w]

\* mutant: the loop already ends when the elapsed time equals the timeout
TimedOutAtLimit(elapsed, limit) == elapsed >= limit

\* GetElapsedTime(&timer) > ai->timeout
TimedOut(elapsed, limit) == elapsed > limit

\* mutant: the deadline is checked in every iteration
AtCheckAlways(n) == TRUE

\* simulated % 1000 == 0
AtCheck(n) == n % BATCH = 0

\* mutant: the lock is taken without waiting for its holder
CanLockAlways(m) == TRUE

\* pthread_mutex_lock returns once the mutex is free
CanLock(m) == m = FREE

\* int simulated = 0; int won = 0; StartTimer(&timer);
StartWorker(w) ==
  /\ wpc[w] = "start"
  /\ simulated' = [simulated EXCEPT ![w] = 0]
  /\ won' = [won EXCEPT ![w] = 0]
  /\ timer' = [timer EXCEPT ![w] = 0]
  /\ wpc' = [wpc EXCEPT ![w] = "loop"]
  /\ UNCHANGED <<config, cpc, client, game, action, totals, winprob, ci,
                 mutex, tmp,  drawvars, gamevars, extvars>>

\* if (simulated % 1000 == 0 && GetElapsedTime(&timer) > ai->timeout) break;
BreakLoop(w) ==
  /\ wpc[w] = "loop"
  /\ AtCheck(simulated[w])
  /\ TimedOut(Elapsed(w), timeout)
  /\ wpc' = [wpc EXCEPT ![w] = "lock"]
  /\ UNCHANGED <<config, cpc, client, game, action, totals, winprob, ci,
                 mutex, locals,  drawvars, gamevars, extvars>>

\* the check fails: won += SimulateSingleGame(ai); simulated++;  BATCH times,
\* up to the next iteration with simulated % 1000 == 0.  The playouts touch
\* only the thread's own locals, so the batch is one step; k of them are won.
SimulateBatch(w) ==
  /\ wpc[w] = "loop"
  /\ AtCheck(simulated[w])
  /\ ~TimedOut(Elapsed(w), timeout)
  /\ simulated[w] < MaxBatches * BATCH
  /\ \E k \in BatchWins : won' = [won EXCEPT ![w] = won[w] + k]
  /\ simulated' = [simulated EXCEPT ![w] = simulated[w] + BATCH]
  /\ UNCHANGED <<config, cpc, client, game, action, totals, winprob, ci,
                 mutex, wpc, timer, tmp,  drawvars, gamevars, extvars>>

\* pthread_mutex_lock(&ai->mutex)
Lock(w) ==
  /\ wpc[w] = "lock"
  /\ CanLock(mutex)
  /\ mutex' = w
  /\ wpc' = [wpc EXCEPT ![w] = "load_won"]
  /\ UNCHANGED <<config, cpc, client, game, action, totals, winprob, ci,
                 locals,  drawvars, gamevars, extvars>>

\* ai->games_won += won : the load
LoadWon(w) ==
  /\ wpc[w] = "load_won"
  /\ tmp' = [tmp EXCEPT ![w] = games_won]
  /\ wpc' = [wpc EXCEPT ![w] = "store_won"]
  /\ UNCHANGED <<config, cpc, client, game, action, totals, winprob, ci,
                 mutex, simulated, won, timer,  drawvars, gamevars, extvars>>

\* ai->games_won += won : the store (the loaded value is dead afterwards)
StoreWon(w) ==
  /\ wpc[w] = "store_won"
  /\ games_won' = tmp[w] + won[w]
  /\ tmp' = [tmp EXCEPT ![w] = 0]
  /\ wpc' = [wpc EXCEPT ![w] = "load_sim"]
  /\ UNCHANGED <<config, cpc, client, game, action, games_simulated, winprob,
                 ci, mutex, simulated, won, timer,  drawvars, gamevars, extvars>>

\* ai->games_simulated += simulated : the load
LoadSimulated(w) ==
  /\ wpc[w] = "load_sim"
  /\ tmp' = [tmp EXCEPT ![w] = games_simulated]
  /\ wpc' = [wpc EXCEPT ![w] = "store_sim"]
  /\ UNCHANGED <<config, cpc, client, game, action, totals, winprob, ci,
                 mutex, simulated, won, timer,  drawvars, gamevars, extvars>>

\* ai->games_simulated += simulated : the store
StoreSimulated(w) ==
  /\ wpc[w] = "store_sim"
  /\ games_simulated' = tmp[w] + simulated[w]
  /\ tmp' = [tmp EXCEPT ![w] = 0]
  /\ wpc' = [wpc EXCEPT ![w] = "unlock"]
  /\ UNCHANGED <<config, cpc, client, game, action, games_won, winprob, ci,
                 mutex, simulated, won, timer,  drawvars, gamevars, extvars>>

\* mutant: the thread returns without releasing the mutex
UnlockNoRelease(w) ==
  /\ wpc[w] = "unlock"
  /\ wpc' = [wpc EXCEPT ![w] = "done"]
  /\ UNCHANGED <<config, cpc, client, game, action, totals, winprob, ci,
                 mutex, locals,  drawvars, gamevars, extvars>>

\* pthread_mutex_unlock(&ai->mutex); return NULL;
Unlock(w) ==
  /\ wpc[w] = "unlock"
  /\ mutex' = FREE
  /\ wpc' = [wpc EXCEPT ![w] = "done"]
  /\ UNCHANGED <<config, cpc, client, game, action, totals, winprob, ci,
                 locals,  drawvars, gamevars, extvars>>

\* a worker is inside its simulation loop and has not yet seen the deadline
Waiting(w) == wpc[w] = "loop" /\ ~TimedOut(Elapsed(w), timeout)

\* one millisecond passes: every timer that a worker is still polling counts
\* it.  Time that no worker is waiting on changes nothing in the program,
\* and a timer that has passed the timeout is read no more, so the step is
\* taken while some worker waits and leaves the other timers alone.
Tick ==
  /\ \E w \in Threads : Waiting(w)
  /\ timer' = [w \in Threads |->
                 IF Waiting(w) THEN timer[w] + 1 ELSE timer[w]]
  /\ UNCHANGED <<config, cpc, client, game, action, totals, winprob, ci,
                 mutex, wpc, simulated, won, tmp, drawvars, gamevars, extvars>>

(* ---------------------------------------------------------------------- *)
(* Spec: the client, the engine and its worker threads                     *)
(* ---------------------------------------------------------------------- *)
DrawIdle ==
  /\ deck = <<>> /\ decksize = 0 /\ pool = {} /\ drawn = <<>>

GameIdle ==
  /\ num_opponents = 0 /\ myscore = 0 /\ oppscore = <<>>
  /\ bestopponent = 0 /\ result = AI_LOSE /\ gpc = "idle"

PlayIdle ==
  /\ seed = 0 /\ seed0 = 0
  /\ cards = [hand |-> <<>>, community |-> <<>>, deck |-> {}]
  /\ ppc = [w \in Threads |-> "idle"]
  /\ qdeck = [w \in Threads |-> <<>>]
  /\ qsize = [w \in Threads |-> 0]
  /\ comm = [w \in Threads |-> <<>>]
  /\ ohand = [w \in Threads |-> <<>>]
  /\ rands = [w \in Threads |-> <<>>]

ExtIdle ==
  /\ late = [w \in Threads |-> 0]
  /\ PlayIdle

\* CreatePokerAI(num_threads, timeout); main() before its loop.  The action
\* is the malloc'ed PokerAI's: the model starts it unset with amount 0.
MainInit ==
  /\ num_threads \in 0..MaxThreads
  /\ timeout \in Timeouts
  /\ cpc = "get"
  /\ response = "null"
  /\ json = [stack |-> 0, your_turn |-> FALSE]
  /\ attempts = 0
  /\ calls = 0
  /\ game = [stack |-> 0, your_turn |-> FALSE]
  /\ action = [type |-> ACTION_UNSET, amount |-> 0]
  /\ games_won = 0
  /\ games_simulated = 0
  /\ winprob = DZero
  /\ ci = 0
  /\ mutex = FREE
  /\ wpc = [w \in Threads |-> "idle"]
  /\ simulated = [w \in Threads |-> 0]
  /\ won = [w \in Threads |-> 0]
  /\ timer = [w \in Threads |-> 0]
  /\ tmp = [w \in Threads |-> 0]

Init == MainInit /\ DrawIdle /\ GameIdle /\ ExtIdle

Next ==
  \/ HttpGetFail
  \/ HttpGetOk
  \/ UpdateGameState
  \/ DeleteResponse
  \/ EnterTurn
  \/ SkipTurn
  \/ ResetTotals
  \/ Spawn
  \/ SpawnDone
  \/ Join
  \/ JoinDone
  \/ ComputeWinprob
  \/ Decide
  \/ PostAction
  \/ Tick
  \/ \E w \in Threads : StartWorker(w)
  \/ \E w \in Threads : BreakLoop(w)
  \/ \E w \in Threads : SimulateBatch(w)
  \/ \E w \in Threads : Lock(w)
  \/ \E w \in Threads : LoadWon(w)
  \/ \E w \in Threads : StoreWon(w)
  \/ \E w \in Threads : LoadSimulated(w)
  \/ \E w \in Threads : StoreSimulated(w)
  \/ \E w \in Threads : Unlock(w)

Spec == Init /\ [][Next]_vars

(* ---------------------------------------------------------------------- *)
(* Properties of Spec                                                      *)
(* ---------------------------------------------------------------------- *)
RECURSIVE SumTo(_, _)
SumTo(f, n) == IF n = 0 THEN 0 ELSE f[n] + SumTo(f, n - 1)

Running(w)    == wpc[w] \notin {"idle", "done"}
InCritical(w) == wpc[w] \in {"load_won", "store_won", "load_sim", "store_sim",
                             "unlock"}
TimerStarted(w) == wpc[w] \notin {"idle", "start"}

\* C2: when GetBestAction reads the totals after the join, each total is the
\* sum of the local counts of exactly the num_threads workers of this cycle
C2_NoLostUpdates ==
  cpc = "compute" =>
    /\ games_simulated = SumTo(simulated, num_threads)
    /\ games_won = SumTo(won, num_threads)

\* two workers with different tallies have reported, in a cycle that follows
\* one which left non-zero totals behind (its bet is still in the action)
C2_Witness ==
  /\ cpc = "compute" /\ num_threads >= 2
  /\ simulated[1] = BATCH /\ simulated[2] = BATCH
  /\ won[1] # won[2]
  /\ action.amount > 0

\* C3: a cycle launches exactly num_threads workers; the coordinator passes
\* the join only when all of them have finished; outside a cycle no worker
\* exists
C3_JoinBarrier ==
  /\ cpc \notin {"spawn", "join"} => \A w \in Threads : ~Running(w)
  /\ cpc = "join" => {w \in Threads : wpc[w] # "idle"} = 1..num_threads
  /\ cpc \in {"compute", "decide"} =>
       {w \in Threads : wpc[w] = "done"} = 1..num_threads
  /\ cpc \notin {"spawn", "join", "compute", "decide"} =>
       \A w \in Threads : wpc[w] = "idle"

\* the coordinator has joined thread 1 and is blocked on thread 2, which is
\* still simulating
C3_Witness ==
  /\ cpc = "join" /\ ci = 1 /\ num_threads >= 2
  /\ wpc[2] = "loop" /\ simulated[2] = BATCH

\* C4: with games_simulated = 0 after the join the win probability is 0 and
\* the action is Fold
C4_DegenerateIsZero ==
  (cpc = "post" /\ games_simulated = 0) =>
    (DoubleIsZero(winprob) /\ action.type = FOLD)

\* C4, what the code does: the quotient is a NaN, and the action is Fold
C4_DegenerateIsNaNFold ==
  (cpc = "post" /\ games_simulated = 0) => (winprob.nan /\ action.type = FOLD)

C6_ActionLifecycle ==
  /\ [](cpc \in {"delete", "turn", "reset", "spawn", "join", "compute",
                 "decide"} => action.type = ACTION_UNSET)
  /\ [](cpc = "post" => action.type \in {FOLD, CALL, BET})
  /\ [][action.type' # action.type =>
          \/ cpc = "update" /\ action.type' = ACTION_UNSET
          \/ /\ cpc = "decide" /\ action.type = ACTION_UNSET
             /\ action.type' \in {FOLD, CALL, BET}
       ]_vars

\* an update has just reset the action that an earlier cycle set to a bet
C6_Witness ==
  cpc = "delete" /\ action.type = ACTION_UNSET /\ action.amount > 0

\* C7: a worker is between lock and unlock only as the holder of the mutex,
\* so at most one is; the totals change only by the holder or by the
\* coordinator's reset, which like its read happens while no worker runs;
\* whenever the mutex is free the two totals are the sums over the same
\* workers (those that have reported) and 0 <= games_won <= games_simulated
C7_MutexAtomicUpdate ==
  /\ [](/\ \A w \in Threads : InCritical(w) => mutex = w
        /\ Cardinality({w \in Threads : InCritical(w)}) <= 1
        /\ cpc \in {"reset", "compute"} => \A w \in Threads : ~Running(w)
        /\ mutex = FREE =>
             /\ 0 <= games_won /\ games_won <= games_simulated
             /\ cpc \in {"spawn", "join", "compute"} =>
                  LET rep == [w \in Threads |-> wpc[w] = "done"]
                  IN  /\ games_won =
                           SumTo([w \in Threads |-> IF rep[w] THEN won[w] ELSE 0],
                                 MaxThreads)
                      /\ games_simulated =
                           SumTo([w \in Threads |->
                                    IF rep[w] THEN simulated[w] ELSE 0],
                                 MaxThreads))
  /\ [][(games_won' # games_won \/ games_simulated' # games_simulated) =>
          \/ cpc = "reset"
          \/ \E w \in Threads : mutex = w /\ InCritical(w) /\ wpc'[w] # wpc[w]
       ]_vars

\* thread 1 holds the mutex between its two additions, games_won is ahead
\* of games_simulated, and thread 2 waits for the lock
C7_Witness ==
  /\ wpc[1] = "load_sim" /\ mutex = 1
  /\ wpc[2] = "lock"
  /\ games_won > games_simulated

\* C10: a Bet's amount is between 0 and the agent's stack
C10_BetWithinStack ==
  action.type = BET => (0 <= action.amount /\ action.amount <= game.stack)

\* a bet of the whole (non-zero) stack, decided on totals of two workers
C10_Witness ==
  /\ cpc = "post" /\ action.type = BET
  /\ game.stack > 0 /\ action.amount = game.stack
  /\ games_simulated = 2 * BATCH

InCycle == cpc \in {"reset", "spawn", "join", "compute", "decide"}

\* C15: when the inbound state cannot be obtained or decoded, the caller is
\* told so, the GameState stays as it was and the iteration runs no decision
\* cycle: no cycle, and no post of its action, happens in an iteration whose
\* response did not decode
C15_NoCycleOnFailure ==
  (InCycle \/ cpc = "post") => json # MALFORMED

\* C15, the part the client keeps: a fetch that fails leaves the GameState
\* and the action alone and the client fetches again
C15_FetchFailureSkips ==
  [][(cpc = "get" /\ response' = "null") =>
       (cpc' = "get" /\ game' = game /\ action' = action)]_vars

\* C16: a decision is followed by at least one and at most MAX_TRIES POST
\* attempts before the client goes back to fetching
C16_PostsAction ==
  [][(cpc = "post" /\ cpc' = "get") =>
       (1 <= attempts /\ attempts <= MAX_TRIES)]_vars

\* C18: a decision cycle starts only from the turn test of an iteration
\* whose fetch succeeded and whose one UpdateGameState came before it, and
\* only if MyTurn holds of the GameState that update left, which nothing
\* changes until the cycle is over; after the cycle the iteration ends, so
\* it runs at most one; a failed fetch or a turn that is not the agent's
\* leads straight back to the fetch
C18_CycleOnlyOnTurn ==
  /\ []((InCycle \/ cpc = "post") =>
         (game.your_turn /\ calls = 1 /\ response # "null"))
  /\ [][/\ (cpc' = "reset" /\ cpc # "reset") => (cpc = "turn" /\ MyTurn)
        /\ (cpc \in {"delete", "turn"} \/ InCycle) => game' = game
        /\ (cpc = "post") => cpc' \in {"post", "get"}
        /\ (cpc = "get" /\ response' = "null") => cpc' = "get"
        /\ (cpc = "turn" /\ ~MyTurn) => cpc' \in {"turn", "get"}
       ]_vars

\* a second decision cycle is about to start on the state the update of
\* this iteration installed; the totals of the first are still there
C18_Witness ==
  /\ cpc = "reset" /\ game = json /\ game.your_turn /\ calls = 1
  /\ games_simulated > 0

\* C19: after a decision cycle a Fold or a Call has amount 0
C19_FoldCallNoAmount ==
  (cpc = "post" /\ action.type \in {FOLD, CALL}) => action.amount = 0

(* ---------------------------------------------------------------------- *)
(* SpecDecide: GetBestAction after the join, for one worker that has       *)
(* reported games_simulated playouts of which games_won were won           *)
(* ---------------------------------------------------------------------- *)
InitDecide ==
  /\ num_threads = 1
  /\ timeout \in Timeouts
  /\ cpc = "compute"
  /\ response = "freed"
  /\ attempts = 0
  /\ calls = 1
  /\ \E st \in DecideStacks :
       /\ json = [stack |-> st, your_turn |-> TRUE]
       /\ game = [stack |-> st, your_turn |-> TRUE]
  /\ action = [type |-> ACTION_UNSET, amount |-> 0]
  /\ games_simulated \in DecideSimulated
  /\ games_won \in DecideWon(games_simulated)
  /\ winprob = DZero
  /\ ci = 1
  /\ mutex = FREE
  /\ wpc = [w \in Threads |-> IF w = 1 THEN "done" ELSE "idle"]
  /\ simulated = [w \in Threads |-> IF w = 1 THEN games_simulated ELSE 0]
  /\ won = [w \in Threads |-> IF w = 1 THEN games_won ELSE 0]
  /\ timer = [w \in Threads |-> IF w = 1 THEN timeout + 1 ELSE 0]
  /\ tmp = [w \in Threads |-> 0]
  /\ DrawIdle /\ GameIdle /\ ExtIdle

NextDecide ==
  \/ ComputeWinprob
  \/ Decide

SpecDecide == InitDecide /\ [][NextDecide]_vars

\* the exact quotient and product the policy is stated with
ExactGt(a, d, num, den) == a * den > d * num         \* a / d > num / den
ExactFloorMul(st, a, d) == (st * a) \div d            \* floor(st * a / d)

\* C1: once GetBestAction has decided on totals with 0 < games_simulated
\* and games_won <= games_simulated, p = games_won / games_simulated > 0.5
\* gives Bet with amount floor(stack * p), 0.25 < p <= 0.5 gives Call and
\* p <= 0.25 gives Fold
C1_ThresholdPolicy ==
  (cpc = "post" /\ games_simulated > 0 /\ games_won <= games_simulated) =>
    IF ExactGt(games_won, games_simulated, 1, 2)
    THEN /\ action.type = BET
         /\ action.amount = ExactFloorMul(game.stack, games_won, games_simulated)
    ELSE IF ExactGt(games_won, games_simulated, 1, 4)
    THEN action.type = CALL
    ELSE action.type = FOLD

\* C1, the part the code keeps: the type follows the thresholds exactly
C1_TypeOnly ==
  (cpc = "post" /\ games_simulated > 0 /\ games_won <= games_simulated) =>
    action.type =
      IF ExactGt(games_won, games_simulated, 1, 2) THEN BET
      ELSE IF ExactGt(games_won, games_simulated, 1, 4) THEN CALL
      ELSE FOLD

(* ---------------------------------------------------------------------- *)
(* SpecLive: one call of GetBestAction, from its first statement on, with  *)
(* a clock that keeps advancing and threads that are scheduled fairly      *)
(* ---------------------------------------------------------------------- *)
InitLive ==
  /\ num_threads \in 0..MaxThreads
  /\ timeout \in Timeouts
  /\ cpc = "reset"
  /\ response = "freed"
  /\ attempts = 0
  /\ calls = 1
  /\ json = [stack |-> 1, your_turn |-> TRUE]
  /\ game = [stack |-> 1, your_turn |-> TRUE]
  /\ action = [type |-> ACTION_UNSET, amount |-> 0]
  /\ games_won = 0
  /\ games_simulated = 0
  /\ winprob = DZero
  /\ ci = 0
  /\ mutex = FREE
  /\ wpc = [w \in Threads |-> "idle"]
  /\ simulated = [w \in Threads |-> 0]
  /\ won = [w \in Threads |-> 0]
  /\ timer = [w \in Threads |-> 0]
  /\ tmp = [w \in Threads |-> 0]
  /\ DrawIdle /\ GameIdle /\ ExtIdle

\* the thread that called GetBestAction, up to the return of
\* SpawnMonteCarloThreads
Coordinator ==
  \/ ResetTotals
  \/ Spawn
  \/ SpawnDone
  \/ Join
  \/ JoinDone

\* the thread pthread_create started for slot w
Worker(w) ==
  \/ StartWorker(w)
  \/ BreakLoop(w)
  \/ SimulateBatch(w)
  \/ Lock(w)
  \/ LoadWon(w)
  \/ StoreWon(w)
  \/ LoadSimulated(w)
  \/ StoreSimulated(w)
  \/ Unlock(w)

NextLive ==
  \/ Coordinator
  \/ ComputeWinprob
  \/ Decide
  \/ Tick
  \/ \E w \in Threads : Worker(w)

\* the clock keeps advancing; every thread that can take a step eventually
\* takes one (a thread blocked in pthread_mutex_lock or pthread_join can
\* take none until the mutex is free or the joined thread has finished);
\* the division and the if-chain after the join, which wait for nothing,
\* are not put off forever
Fairness ==
  /\ WF_vars(Tick)
  /\ WF_vars(Coordinator)
  /\ \A w \in Threads : WF_vars(Worker(w))
  /\ []<>(cpc # "compute")
  /\ []<>(cpc # "decide")

SpecLive == InitLive /\ [][NextLive]_vars /\ Fairness

\* C11: the call of GetBestAction returns with the action set, and by then
\* every worker it started has left its loop, held and released the mutex
\* and finished: no thread is left blocked in the loop, at the mutex or at
\* the join
C11_EveryCallReturns ==
  (cpc = "reset") ~>
     (/\ cpc = "post" /\ action.type \in {FOLD, CALL, BET}
      /\ mutex = FREE
      /\ \A w \in Threads : wpc[w] = "idle")

\* the call has returned after two workers ran past their deadlines, one
\* of which had to wait for the other at the mutex: both tallies are in
C11_Witness ==
  /\ cpc = "post" /\ num_threads = 2
  /\ action.type \in {FOLD, CALL, BET}
  /\ games_simulated = 2 * BATCH /\ games_won = BATCH

(* ---------------------------------------------------------------------- *)
(* SpecWorker: one worker thread, playout by playout.  SimulateSingleGame  *)
(* is a stub that returns the same result every time; the coordinator      *)
(* waits in pthread_join.                                                  *)
(* ---------------------------------------------------------------------- *)
\* the counts (modulo BATCH) at which the clock is let advance: during the
\* first, the second and the last playout of a batch
TickPoints == {0, 1, BATCH - 1}

InLoop(w) == wpc[w] \in {"loop", "play"}

InitWorker ==
  /\ num_threads = 1
  /\ timeout \in Timeouts
  /\ cpc = "join"
  /\ response = "freed"
  /\ attempts = 0
  /\ calls = 1
  /\ json = [stack |-> 1, your_turn |-> TRUE]
  /\ game = [stack |-> 1, your_turn |-> TRUE]
  /\ action = [type |-> ACTION_UNSET, amount |-> 0]
  /\ games_won = 0
  /\ games_simulated = 0
  /\ winprob = DZero
  /\ ci = 0
  /\ mutex = FREE
  /\ wpc = [w \in Threads |-> IF w = 1 THEN "start" ELSE "idle"]
  /\ simulated = [w \in Threads |-> 0]
  /\ won = [w \in Threads |-> 0]
  /\ timer = [w \in Threads |-> 0]
  /\ tmp = [w \in Threads |-> 0]
  /\ ExtIdle
  /\ num_opponents = 0 /\ myscore = 0 /\ oppscore = <<>>
  /\ bestopponent = 0 /\ gpc = "idle"
  /\ result \in {AI_WIN, AI_LOSE}
  /\ DrawIdle

\* the condition of the if on line 300 is false: the loop body is entered
ContinueLoop(w) ==
  /\ wpc[w] = "loop"
  /\ ~(AtCheck(simulated[w]) /\ TimedOut(Elapsed(w), timeout))
  /\ simulated[w] < MaxBatches * BATCH
  /\ wpc' = [wpc EXCEPT ![w] = "play"]
  /\ UNCHANGED <<config, cpc, client, game, action, totals, winprob, ci,
                 mutex, locals, drawvars, gamevars, extvars>>

\* won += SimulateSingleGame(ai); simulated++;
PlayGame(w) ==
  /\ wpc[w] = "play"
  /\ won' = [won EXCEPT ![w] = won[w] + result]
  /\ simulated' = [simulated EXCEPT ![w] = simulated[w] + 1]
  /\ late' = [late EXCEPT ![w] =
                IF Elapsed(w) > timeout THEN late[w] + 1 ELSE late[w]]
  /\ wpc' = [wpc EXCEPT ![w] = "loop"]
  /\ UNCHANGED <<config, cpc, client, game, action, totals, winprob, ci,
                 mutex, timer, tmp, drawvars, gamevars, playvars>>

\* one millisecond passes while a worker is in its loop, at the check or in
\* a playout
TickPlaying ==
  /\ \E w \in Threads :
       /\ InLoop(w) /\ ~TimedOut(Elapsed(w), timeout)
       /\ simulated[w] % BATCH \in TickPoints
  /\ timer' = [w \in Threads |->
                 IF InLoop(w) /\ ~TimedOut(Elapsed(w), timeout)
                 THEN timer[w] + 1 ELSE timer[w]]
  /\ UNCHANGED <<config, cpc, client, game, action, totals, winprob, ci,
                 mutex, wpc, simulated, won, tmp, drawvars, gamevars,
                 extvars>>

NextWorker ==
  \/ TickPlaying
  \/ \E w \in Threads : StartWorker(w)
  \/ \E w \in Threads : ContinueLoop(w)
  \/ \E w \in Threads : PlayGame(w)
  \/ \E w \in Threads : BreakLoop(w)
  \/ \E w \in Threads : Lock(w)
  \/ \E w \in Threads : LoadWon(w)
  \/ \E w \in Threads : StoreWon(w)
  \/ \E w \in Threads : LoadSimulated(w)
  \/ \E w \in Threads : StoreSimulated(w)
  \/ \E w \in Threads : Unlock(w)

SpecWorker == InitWorker /\ [][NextWorker]_vars

\* C17 without the overshoot: the worker leaves its loop only from the
\* check, with a count that is a multiple of BATCH and an elapsed time
\* above the timeout; at any other count the check lets it play on; the
\* counts it carries out of the loop and adds to the totals are a multiple
\* of BATCH and 0 <= won <= simulated
C17_Checks ==
  /\ [](\A w \in Threads :
          /\ 0 <= won[w] /\ won[w] <= simulated[w]
          /\ wpc[w] \notin {"idle", "start", "loop", "play"} =>
               simulated[w] % BATCH = 0
          /\ wpc[w] = "done" =>
               (games_simulated = simulated[w] /\ games_won = won[w]))
  /\ [][\A w \in Threads :
          /\ (InLoop(w) /\ ~InLoop(w)') =>
               /\ wpc[w] = "loop" /\ wpc'[w] = "lock"
               /\ simulated[w] % BATCH = 0
               /\ Elapsed(w) > timeout
          /\ (wpc[w] = "loop" /\ simulated[w] % BATCH # 0) =>
               wpc'[w] \in {"loop", "play"}
       ]_vars

Amounts == {0, 1}

Actions == [type : {ACTION_UNSET, FOLD, CALL, BET}, amount : Amounts]

InitUpdate ==
  /\ num_threads = 0
  /\ timeout = 0
  /\ cpc = "update"
  /\ response = "live"
  /\ json \in Responses
  /\ attempts = 0
  /\ calls = 0
  /\ game \in GameStates
  /\ action \in Actions
  /\ games_won = 0
  /\ games_simulated = 0
  /\ winprob = DZero
  /\ ci = 0
  /\ mutex = FREE
  /\ wpc = [w \in Threads |-> "idle"]
  /\ simulated = [w \in Threads |-> 0]
  /\ won = [w \in Threads |-> 0]
  /\ timer = [w \in Threads |-> 0]
  /\ tmp = [w \in Threads |-> 0]
  /\ DrawIdle /\ GameIdle /\ ExtIdle

\* the caller passes the same response to UpdateGameState once more
UpdateAgain ==
  /\ cpc = "delete"
  /\ calls < 2
  /\ cpc' = "update"
  /\ UNCHANGED <<config, client, game, action, totals, winprob, ci, mutex,
                 wpc, locals, drawvars, gamevars, extvars>>

NextUpdate ==
  \/ UpdateGameState
  \/ UpdateAgain

SpecUpdate == InitUpdate /\ [][NextUpdate]_vars

Cards == 1..MaxCard

\* the i-th smallest element of the set S of cards
RECURSIVE Nth(_, _)
Nth(S, i) ==
  LET least == CHOOSE x \in S : \A y \in S : x <= y
  IN  IF i = 1 THEN least ELSE Nth(S \ {least}, i - 1)

\* int deck[..] = {0}; for (i ...) if (game->deck[i]) deck[decksize++] = i + 1;
\* unused is the set of cards i + 1 with game->deck[i] set
BuildDeck(unused) ==
  [i \in Cards |-> IF i <= Cardinality(unused) THEN Nth(unused, i) ELSE 0]

\* mutant: the drawn slot is not refilled with the last card
DrawNoSwap(d, size, r) ==
  LET index == r % size
  IN  [value |-> d[index + 1], deck |-> d, size |-> size - 1]

\* int draw(int *deck, int *psize) with rand() = r; C index k is d[k + 1]
Draw(d, size, r) ==
  LET index == r % size
  IN  [value |-> d[index + 1],
       deck  |-> [d EXCEPT ![index + 1] = d[(size - 1) + 1]],
       size  |-> size - 1]

\* the cards in the queue
Live(d, size) == {d[i] : i \in 1..size}

InitDraw ==
  /\ MainInit /\ num_threads = 0 /\ timeout = 0 /\ GameIdle /\ ExtIdle
  /\ pool \in {S \in SUBSET Cards : Cardinality(S) <= MaxDeck}
  /\ deck = BuildDeck(pool)
  /\ decksize = Cardinality(pool)
  /\ drawn = <<>>

\* value = draw(deck, &decksize), called on a queue that is not empty
DrawCard ==
  /\ decksize > 0
  /\ \E r \in 0..MaxRand :
       LET res == Draw(deck, decksize, r)
       IN  /\ deck' = res.deck
           /\ decksize' = res.size
           /\ drawn' = Append(drawn, res.value)
  /\ UNCHANGED <<pool, mainvars, gamevars, extvars>>

NextDraw == DrawCard

SpecDraw == InitDraw /\ [][NextDraw]_vars

\* C8: every draw returns a card that is in the queue, removes exactly that
\* card and makes the queue one shorter; the queue never holds a card
\* twice; the cards drawn and the cards left are always the pool, each card
\* once, so when the queue is empty the draws were pairwise distinct and
\* exactly the pool
C8_DrawWithoutReplacement ==
  /\ [](/\ Cardinality(Live(deck, decksize)) = decksize
        /\ Live(deck, decksize) \cup {drawn[i] : i \in 1..Len(drawn)} = pool
        /\ Len(drawn) + decksize = Cardinality(pool)
        /\ decksize >= 0
        /\ decksize = 0 =>
             /\ {drawn[i] : i \in 1..Len(drawn)} = pool
             /\ \A i, j \in 1..Len(drawn) : i # j => drawn[i] # drawn[j])
  /\ [][LET v == drawn'[Len(drawn')]
        IN  /\ Len(drawn') = Len(drawn) + 1
            /\ v \in Live(deck, decksize)
            /\ Live(deck', decksize') = Live(deck, decksize) \ {v}
            /\ decksize' = decksize - 1
       ]_drawvars

\* a pool of MaxDeck cards drawn empty, the first draw from inside the queue
C8_Witness ==
  /\ Cardinality(pool) = MaxDeck
  /\ decksize = 0
  /\ Len(drawn) = MaxDeck
  /\ drawn[1] # deck[1] /\ drawn[1] # Nth(pool, MaxDeck)
  /\ drawn[2] = Nth(pool, MaxDeck)

(* ---------------------------------------------------------------------- *)
(* SpecGame: the end of SimulateSingleGame                                 *)
(* ---------------------------------------------------------------------- *)
\* GetHandValue: the score of a hand, a non-negative integer
Scores == 0..MaxScore

\* BestOpponentHand's loop from opponent i on, with the maximum so far
RECURSIVE BestOpponentLoop(_, _, _, _)
BestOpponentLoop(scores, i, numopponents, max) ==
  IF i > numopponents THEN max
  ELSE BestOpponentLoop(scores, i + 1, numopponents,
                        IF scores[i] > max THEN scores[i] ELSE max)

\* int BestOpponentHand(opponents, numopponents, numcards): int max = 0; ...
BestOpponentHand(scores, numopponents) ==
  BestOpponentLoop(scores, 1, numopponents, 0)

\* mutant: a tie with the best opponent counts as a win
GameResultTieWins(my, best) == IF my >= best THEN AI_WIN ELSE AI_LOSE

\* if (myscore > bestopponent) return AI_WIN; else return AI_LOSE;
GameResult(my, best) == IF my > best THEN AI_WIN ELSE AI_LOSE

InitGame ==
  /\ MainInit /\ num_threads = 0 /\ timeout = 0 /\ DrawIdle /\ ExtIdle
  /\ num_opponents \in 0..MaxOpp
  /\ myscore = 0
  /\ oppscore = [i \in 1..num_opponents |-> 0]
  /\ bestopponent = 0
  /\ result = AI_LOSE
  /\ gpc = "deal"

\* the cards are dealt; the evaluator gives the agent's hand and every
\* opponent's hand a score:  myscore = GetHandValue(me, ...)
ScoreHands ==
  /\ gpc = "deal"
  /\ myscore' \in Scores
  /\ oppscore' \in [1..num_opponents -> Scores]
  /\ gpc' = "compare"
  /\ UNCHANGED <<num_opponents, bestopponent, result, mainvars, drawvars, extvars>>

\* bestopponent = BestOpponentHand(...); if (myscore > bestopponent) ...
CompareHands ==
  /\ gpc = "compare"
  /\ bestopponent' = BestOpponentHand(oppscore, num_opponents)
  /\ result' = GameResult(myscore, bestopponent')
  /\ gpc' = "returned"
  /\ UNCHANGED <<num_opponents, myscore, oppscore, mainvars, drawvars, extvars>>

\* the worker's loop calls SimulateSingleGame again
NextPlayout ==
  /\ gpc = "returned"
  /\ gpc' = "deal"
  /\ UNCHANGED <<num_opponents, myscore, oppscore, bestopponent, result,
                 mainvars, drawvars, extvars>>

NextGame ==
  \/ ScoreHands
  \/ CompareHands
  \/ NextPlayout

SpecGame == InitGame /\ [][NextGame]_vars

\* C9: the playout returns a win exactly if the agent's score is strictly
\* greater than every opponent's score; with no opponent, exactly if it is
\* greater than 0
C9_WinIffStrictlyBest ==
  gpc = "returned" =>
    /\ result \in {AI_WIN, AI_LOSE}
    /\ result = AI_WIN <=>
         IF num_opponents = 0 THEN myscore > 0
         ELSE \A i \in 1..num_opponents : myscore > oppscore[i]

\* the agent ties with the best of two opponents and loses
C9_Witness ==
  /\ gpc = "returned" /\ num_opponents = 2
  /\ myscore = oppscore[2] /\ myscore > oppscore[1]
  /\ result = AI_LOSE

(* ---------------------------------------------------------------------- *)
(* SpecPlay and SpecRand: the dealing of SimulateSingleGame, draw by draw, *)
(* with rand() as the one generator of the process.  SpecPlay is one       *)
(* thread with up to MAX_OPPONENTS opponents; SpecRand is two threads      *)
(* that deal at the same time.                                             *)
(* ---------------------------------------------------------------------- *)
NUM_DECK      == 52
NUM_HAND      == 2
NUM_COMMUNITY == 5
MAX_OPPONENTS == 10

\* rand(): the value returned in state s, and the state after the call
RandValue(s) == 7 * s
RandNext(s) == (s + 1) % (MaxRand + 1)

\* the state of rand() after n calls from state s
RECURSIVE RandIter(_, _)
RandIter(s, n) == IF n = 0 THEN s ELSE RandIter(RandNext(s), n - 1)

Range(q) == {q[i] : i \in 1..Len(q)}

\* the agent's hole cards and the board the known community cards are the
\* first communitysize cards of
Hands  == {<<1, 2>>, <<52, 26>>}
Boards == {<<3, 4, 5, 6, 7>>, <<51, 27, 13, 40, 8>>}

\* a GameState in which the cards marked unused in game->deck are exactly
\* those that are neither in the agent's hand nor on the board
CardState(hand, board, communitysize) ==
  LET known == SubSeq(board, 1, communitysize)
  IN  [hand |-> hand, community |-> known,
       deck |-> (1..NUM_DECK) \ (Range(hand) \cup Range(known))]

\* int deck[52] = {0}; for (i ...) if (game->deck[i]) deck[decksize++] = i + 1;
BuildQueue(unused) ==
  LET live == SelectSeq([i \in 1..NUM_DECK |-> i], LAMBDA c : c \in unused)
  IN  [i \in 1..NUM_DECK |-> IF i <= Len(live) THEN live[i] ELSE 0]

\* mutant: the loop that deals an opponent's personal cards runs over the
\* whole hand array
HoleCardsToDealWholeArray(numopponents) ==
  (NUM_HAND + NUM_COMMUNITY) * numopponents

\* for (opp < game->num_opponents) for (i < NUM_HAND) ... = draw(...)
HoleCardsToDeal(numopponents) == NUM_HAND * numopponents

InitPlayCommon ==
  /\ MainInit /\ num_threads = 0 /\ timeout = 0 /\ DrawIdle
  /\ late = [w \in Threads |-> 0]
  /\ myscore = 0 /\ oppscore = <<>> /\ bestopponent = 0
  /\ result = AI_LOSE /\ gpc = "idle"
  /\ seed \in 0..MaxRand
  /\ seed0 = seed
  /\ qdeck = [w \in Threads |-> <<>>]
  /\ qsize = [w \in Threads |-> 0]
  /\ comm = [w \in Threads |-> <<>>]
  /\ ohand = [w \in Threads |-> <<>>]
  /\ rands = [w \in Threads |-> <<>>]

InitPlay ==
  /\ InitPlayCommon
  /\ num_opponents \in 0..MAX_OPPONENTS
  /\ \E h \in Hands, b \in Boards, n \in 0..NUM_COMMUNITY :
       cards = CardState(h, b, n)
  /\ ppc = [w \in Threads |-> IF w = 1 THEN "build" ELSE "idle"]

InitRand ==
  /\ InitPlayCommon
  /\ num_opponents \in 0..MaxOpp
  /\ \E n \in (NUM_COMMUNITY - 1)..NUM_COMMUNITY :
       cards = CardState(<<52, 26>>, <<51, 27, 13, 40, 8>>, n)
  /\ ppc = [w \in Threads |-> IF w <= 2 THEN "build" ELSE "idle"]

\* lines 344-360: the queue is built from game->deck and the known
\* community cards are copied
BuildPool(w) ==
  /\ ppc[w] = "build"
  /\ qdeck' = [qdeck EXCEPT ![w] = BuildQueue(cards.deck)]
  /\ qsize' = [qsize EXCEPT ![w] = Cardinality(cards.deck)]
  /\ comm' = [comm EXCEPT ![w] = cards.community]
  /\ ppc' = [ppc EXCEPT ![w] = "deal"]
  /\ UNCHANGED <<mainvars, drawvars, gamevars, late, seed, seed0, cards,
                 ohand, rands>>

\* draw(deck, &decksize) by thread w: rand() is called, and the card goes
\* to the community array (to = "comm") or to an opponent (to = "opp").
\* With an empty queue rand() % 0 is a division by zero.
DrawFor(w, to) ==
  IF qsize[w] = 0
  THEN /\ ppc' = [ppc EXCEPT ![w] = "fault"]
       /\ UNCHANGED <<seed, rands, qdeck, qsize, comm, ohand>>
  ELSE LET res == Draw(qdeck[w], qsize[w], RandValue(seed))
       IN  /\ seed' = RandNext(seed)
           /\ rands' = [rands EXCEPT ![w] = Append(rands[w], RandValue(seed))]
           /\ qdeck' = [qdeck EXCEPT ![w] = res.deck]
           /\ qsize' = [qsize EXCEPT ![w] = res.size]
           /\ IF to = "comm"
              THEN /\ comm' = [comm EXCEPT ![w] = Append(comm[w], res.value)]
                   /\ UNCHANGED ohand
              ELSE /\ ohand' = [ohand EXCEPT ![w] = Append(ohand[w], res.value)]
                   /\ UNCHANGED comm
           /\ UNCHANGED ppc

\* community[i] = draw(deck, &decksize), communitysize <= i < NUM_COMMUNITY
DrawCommunity(w) ==
  /\ ppc[w] = "deal"
  /\ Len(comm[w]) < NUM_COMMUNITY
  /\ DrawFor(w, "comm")
  /\ UNCHANGED <<mainvars, drawvars, gamevars, late, seed0, cards>>

\* opponents[opp][i] = draw(deck, &decksize)
DrawOpponent(w) ==
  /\ ppc[w] = "deal"
  /\ Len(comm[w]) >= NUM_COMMUNITY
  /\ Len(ohand[w]) < HoleCardsToDeal(num_opponents)
  /\ DrawFor(w, "opp")
  /\ UNCHANGED <<mainvars, drawvars, gamevars, late, seed0, cards>>

\* lines 384-404: the hands are put together and scored, the call returns
FinishGame(w) ==
  /\ ppc[w] = "deal"
  /\ Len(comm[w]) >= NUM_COMMUNITY
  /\ Len(ohand[w]) >= HoleCardsToDeal(num_opponents)
  /\ ppc' = [ppc EXCEPT ![w] = "returned"]
  /\ UNCHANGED <<mainvars, drawvars, gamevars, late, seed, seed0, cards,
                 qdeck, qsize, comm, ohand, rands>>

NextPlay ==
  \/ \E w \in Threads : BuildPool(w)
  \/ \E w \in Threads : DrawCommunity(w)
  \/ \E w \in Threads : DrawOpponent(w)
  \/ \E w \in Threads : FinishGame(w)

SpecPlay == InitPlay /\ [][NextPlay]_vars

SpecRand == InitRand /\ [][NextPlay]_vars

\* draws thread w has made, and draws one playout makes in all
DrawsMade(w) == Len(rands[w])
DrawsInAll ==
  (NUM_COMMUNITY - Len(cards.community)) + NUM_HAND * num_opponents

\* C12: with the unused cards being all but the agent's hand and the known
\* community cards, and at most MAX_OPPONENTS opponents, the draws of a
\* playout are no more than the cards of the pool it builds; the queue
\* holds at least one card before every draw, its size is never negative
\* and no draw divides by zero
C12_NeverDrawsFromEmpty ==
  /\ DrawsInAll <= Cardinality(cards.deck)
  /\ \A w \in Threads :
       /\ ppc[w] # "fault"
       /\ qsize[w] >= 0
       /\ ppc[w] \in {"deal", "returned"} =>
            /\ qsize[w] = Cardinality(cards.deck) - DrawsMade(w)
            /\ DrawsMade(w) <= DrawsInAll
       /\ (ppc[w] = "deal" /\ DrawsMade(w) < DrawsInAll) => qsize[w] >= 1

\* before the flop, against MAX_OPPONENTS opponents: all NUM_COMMUNITY
\* community cards and every opponent's hole cards have been drawn
C12_Witness ==
  /\ ppc[1] = "returned"
  /\ num_opponents = MAX_OPPONENTS /\ cards.community = <<>>
  /\ DrawsMade(1) = NUM_COMMUNITY + NUM_HAND * MAX_OPPONENTS
  /\ qsize[1] = NUM_DECK - NUM_HAND - DrawsMade(1)

\* C13: the random values a worker draws are determined by that worker
\* alone: they are the values the generator gives it when it runs with no
\* other worker, under every interleaving with the other workers
C13_PrivateStream ==
  \A w \in Threads : \A i \in 1..Len(rands[w]) :
    rands[w][i] = RandValue(RandIter(seed0, i - 1))

\* the cards in play in thread w's playout
InPlay(w) == Range(cards.hand) \cup Range(comm[w]) \cup Range(ohand[w])

\* C20: each playout deals from a queue of its own, which holds the unused
\* cards of the GameState less the cards this playout has drawn and which
\* only the playout's own steps change; the agent's hole cards, the
\* community cards and the opponents' hole cards of a playout are
\* pairwise distinct; the GameState is never changed
C20_PrivatePoolDistinctCards ==
  /\ [](\A w \in Threads : ppc[w] \in {"deal", "returned"} =>
          /\ Cardinality(InPlay(w)) =
               Len(cards.hand) + Len(comm[w]) + Len(ohand[w])
          /\ SubSeq(comm[w], 1, Len(cards.community)) = cards.community
          /\ Live(qdeck[w], qsize[w]) = (1..NUM_DECK) \ InPlay(w)
          /\ Cardinality(Live(qdeck[w], qsize[w])) = qsize[w]
          /\ ppc[w] = "returned" =>
               /\ Len(comm[w]) = NUM_COMMUNITY
               /\ Len(ohand[w]) = NUM_HAND * num_opponents)
  /\ [][/\ cards' = cards /\ num_opponents' = num_opponents
        /\ \A w \in Threads :
             <<qdeck[w], qsize[w], comm[w], ohand[w]>>' #
                <<qdeck[w], qsize[w], comm[w], ohand[w]>> =>
             /\ ppc[w] \in {"build", "deal"}
             /\ \A v \in Threads \ {w} :
                  <<ppc[v], qdeck[v], qsize[v], comm[v], ohand[v]>>' =
                     <<ppc[v], qdeck[v], qsize[v], comm[v], ohand[v]>>
       ]_vars

\* two playouts of the same GameState have returned with different cards
\* for the missing community slot and for the opponents
C20_Witness ==
  /\ ppc[1] = "returned" /\ ppc[2] = "returned"
  /\ num_opponents >= 2
  /\ Len(cards.community) = NUM_COMMUNITY - 1
  /\ comm[1] # comm[2]
  /\ Range(ohand[1]) \cap Range(ohand[2]) = {}

====
